---- MODULE Spec2Model ----
(***************************************************************************)
(* Model of the three entry points of the repository:                      *)
(*   look_camera.py       receive_looking_status  (mode "attention")       *)
(*   robot_controller.py  control_robot           (mode "robot")           *)
(*   robot_controller.py  visualize_head          (mode "virtual")         *)
(* One run of the program executes exactly one of them (the __main__       *)
(* blocks dispatch on the command line), so Init draws the mode.           *)
(*                                                                         *)
(* Numbers: angles are degrees restricted to the values of the bounded     *)
(* input sets; np.radians maps degrees to quarter turns (units of pi/2),   *)
(* cos/sin are exact on quarter turns, and the eye rest offsets are kept   *)
(* in thousandths.  A Python Optional value is a sequence of length <= 1.  *)
(***************************************************************************)
EXTENDS Integers, Sequences, FiniteSets, TLC

VARIABLES
    mode,          \* entry point that runs: "attention", "robot", "virtual"
    \* ---- look_camera.py: receive_looking_status
    lk_pc,         \* "recv" (in the loop), "stopped" (KeyboardInterrupt), "crashed"
    lk_sock,       \* "open" / "closed"
    last_status,   \* <<>> (None) or <<b>>
    lk_recvd,      \* sequence of datagrams returned by sock.recvfrom
    lk_decoded,    \* looking values unpacked so far (history)
    lk_events,     \* status lines printed so far (the looking value of each)
    \* ---- robot_controller.py: control_robot
    rb_pc,         \* "recv", "pan", "tilt", "killed"
    rb_sock,       \* "open" / "closed"
    pan_angle,     \* locals of the loop body, <<>> before the first unpack
    tilt_angle,
    rb_recvd,      \* sequence of datagrams returned by sock.recvfrom
    rb_decoded,    \* samples unpacked so far (history), each <<pan, tilt>>
    rb_calls,      \* set_joint_position calls made so far (history)
    rb_errors,     \* number of "[ERROR]" lines printed
    \* ---- robot_controller.py: visualize_head
    rn_running,    \* the Qt event loop (and so the timer) is running
    rn_queue,      \* datagrams pending in the non-blocking socket
    rn_arrived,    \* number of datagrams that reached the socket
    rn_ticks,      \* outcome of each call of update so far: "empty", "bad", "applied"
    rn_last,       \* <<>> or <<sample>>: the sample the last applying tick used
    rn_applied,    \* the samples applied by update so far, in order (history)
    rn_R,          \* R computed by the last applying tick (<<>> before)
    head,          \* head.transform, 3x3 rotation part
    left_eye,      \* left_eye.transform, translation part
    right_eye,     \* right_eye.transform, translation part
    rn_errors      \* number of "[ERROR]" lines printed by update

lkvars == <<lk_pc, lk_sock, last_status, lk_recvd, lk_decoded, lk_events>>
rbvars == <<rb_pc, rb_sock, pan_angle, tilt_angle, rb_recvd, rb_decoded,
            rb_calls, rb_errors>>
rnvars == <<rn_running, rn_queue, rn_arrived, rn_ticks, rn_last, rn_applied, rn_R,
            head, left_eye,
            right_eye, rn_errors>>
vars == <<mode, lkvars, rbvars, rnvars>>

\* ------------------------------------------------------------------ bounds
MaxAttn == 5        \* datagrams received by receive_looking_status
MaxRobot == 3       \* datagrams received by control_robot
MaxRender == 2      \* datagrams that arrive at the socket of visualize_head
MaxPending == 2     \* datagrams pending in the socket of visualize_head
MaxTicks == 4       \* timer timeouts of visualize_head

\* ---------------------------------------------------------- wire formats
\* struct.calcsize('?q'): bool, 7 bytes of native alignment, int64
AttnSize == 16
\* struct.calcsize('ff')
OrientSize == 8

AttnLens == {9, AttnSize}
OrientLens == {7, OrientSize, 9}
FlagBytes == {0, 1, 2}
RobotAngles == {-20, 45}
RenderAngles == {-90, 0, 90, 180}

\* a datagram of the attention stream: its length and its first byte
AttnDatagrams == [len : AttnLens, flag : FlagBytes]
\* a datagram of the orientation stream: its length and its two floats
OrientDatagrams(A) ==
    [len : {OrientSize}, f0 : A, f1 : A]
        \cup [len : OrientLens \ {OrientSize}, f0 : {0}, f1 : {0}]

None == <<>>
Some(x) == <<x>>

\* ------------------------------------------------ look_camera.py helpers
\* struct.unpack('?q', data) raises struct.error unless len(data) == 16
AttnUnpackOk_Lenient(d) == d.len <= AttnSize
AttnUnpackOk(d) == d.len = AttnSize

\* the '?' field: any non-zero byte is True
UnpackLooking(d) == d.flag # 0

\* if last_status != looking_at_camera
StatusChanged_Always(last, looking) == TRUE
StatusChanged(last, looking) == last # Some(looking)

\* last_status = looking_at_camera
Latch_Keep(last, looking) == last
Latch(last, looking) == Some(looking)

\* finally: sock.close() -- the socket when receive_looking_status ends
Finally_Skip(sock) == sock
Finally(sock) == "closed"

\* one iteration of the while loop of receive_looking_status
LookRecv ==
    /\ mode = "attention"
    /\ lk_pc = "recv"
    /\ Len(lk_recvd) < MaxAttn
    /\ \E d \in AttnDatagrams :
         /\ lk_recvd' = Append(lk_recvd, d)
         /\ IF AttnUnpackOk(d)
            THEN LET looking_at_camera == UnpackLooking(d) IN
                 /\ lk_decoded' = Append(lk_decoded, looking_at_camera)
                 /\ IF StatusChanged(last_status, looking_at_camera)
                    THEN /\ lk_events' = Append(lk_events, looking_at_camera)
                         /\ last_status' = Latch(last_status, looking_at_camera)
                    ELSE UNCHANGED <<lk_events, last_status>>
                 /\ UNCHANGED <<lk_pc, lk_sock>>
            ELSE \* struct.error is not a KeyboardInterrupt: no except clause
                 \* takes it, the finally clause runs and the function ends
                 /\ lk_pc' = "crashed"
                 /\ lk_sock' = Finally(lk_sock)
                 /\ UNCHANGED <<lk_decoded, lk_events, last_status>>
    /\ UNCHANGED <<mode, rbvars, rnvars>>

\* Ctrl-C while blocked in recvfrom: except KeyboardInterrupt, then finally
LookInterrupt ==
    /\ mode = "attention"
    /\ lk_pc = "recv"
    /\ lk_pc' = "stopped"
    /\ lk_sock' = Finally(lk_sock)
    /\ UNCHANGED <<last_status, lk_recvd, lk_decoded, lk_events>>
    /\ UNCHANGED <<mode, rbvars, rnvars>>

\* ------------------------------------------- robot_controller.py helpers
\* struct.unpack('ff', data) raises struct.error unless len(data) == 8
OrientUnpackOk_Lenient(d) == d.len >= OrientSize
OrientUnpackOk(d) == d.len = OrientSize

\* pan_angle, tilt_angle = struct.unpack('ff', data): field order
OrientUnpack_Swapped(d) == <<d.f1, d.f0>>
OrientUnpack(d) == <<d.f0, d.f1>>

\* except Exception as e: print(...), then the next iteration of while True
AfterException_Retry(pc) == pc
AfterException_Stop(pc) == "killed"
AfterException(pc) == "recv"

\* the statement that follows a set_joint_position call that returned
AfterCall_PanOnly(pc) == "recv"
AfterCall(pc) == IF pc = "pan" THEN "tilt" ELSE "recv"

\* the joint and the value of the call made at a position of the loop body
JointOf(pc) == IF pc = "pan" THEN "head_0" ELSE "head_1"
ValueOf_PanTwice(pc, p, t) == p
ValueOf(pc, p, t) == IF pc = "pan" THEN p ELSE t

\* sock.recvfrom and struct.unpack of one iteration of control_robot
RobotRecv ==
    /\ mode = "robot"
    /\ rb_pc = "recv"
    /\ Len(rb_recvd) < MaxRobot
    /\ \E d \in OrientDatagrams(RobotAngles) :
         /\ rb_recvd' = Append(rb_recvd, d)
         /\ IF OrientUnpackOk(d)
            THEN /\ pan_angle' = Some(OrientUnpack(d)[1])
                 /\ tilt_angle' = Some(OrientUnpack(d)[2])
                 /\ rb_decoded' = Append(rb_decoded, OrientUnpack(d))
                 /\ rb_pc' = "pan"
                 /\ UNCHANGED rb_errors
            ELSE /\ rb_errors' = rb_errors + 1
                 /\ rb_pc' = AfterException("recv")
                 /\ UNCHANGED <<pan_angle, tilt_angle, rb_decoded>>
    /\ UNCHANGED <<rb_sock, rb_calls>>
    /\ UNCHANGED <<mode, lkvars, rnvars>>

\* robot.set_joint_position("head_0", pan_angle) / ("head_1", tilt_angle):
\* the call returns (ok) or raises (caught by except Exception)
RobotSetJoint ==
    /\ mode = "robot"
    /\ rb_pc \in {"pan", "tilt"}
    /\ \E ok \in BOOLEAN :
         /\ rb_calls' = Append(rb_calls,
                [joint |-> JointOf(rb_pc),
                 value |-> ValueOf(rb_pc, pan_angle[1], tilt_angle[1]),
                 ok |-> ok,
                 idx |-> Len(rb_recvd)])
         /\ IF ok
            THEN /\ rb_pc' = AfterCall(rb_pc)
                 /\ UNCHANGED rb_errors
            ELSE /\ rb_pc' = AfterException(rb_pc)
                 /\ rb_errors' = rb_errors + 1
    /\ UNCHANGED <<rb_sock, pan_angle, tilt_angle, rb_recvd, rb_decoded>>
    /\ UNCHANGED <<mode, lkvars, rnvars>>

\* Ctrl-C: KeyboardInterrupt is not an Exception, the except clause does not
\* take it and control_robot has no finally clause and never calls sock.close
RobotInterrupt ==
    /\ mode = "robot"
    /\ rb_pc \in {"recv", "pan", "tilt"}
    /\ rb_pc' = "killed"
    /\ UNCHANGED <<rb_sock, pan_angle, tilt_angle, rb_recvd, rb_decoded,
                   rb_calls, rb_errors>>
    /\ UNCHANGED <<mode, lkvars, rnvars>>

\* ---------------------------------------------- visualize_head helpers
Dot(a, b) == a[1] * b[1] + a[2] * b[2] + a[3] * b[3]
Col(M, j) == <<M[1][j], M[2][j], M[3][j]>>
\* numpy's M @ v and A @ B on 3x3 arrays
MatVec(M, v) == <<Dot(M[1], v), Dot(M[2], v), Dot(M[3], v)>>
MatRow(A, B, i) == <<Dot(A[i], Col(B, 1)), Dot(A[i], Col(B, 2)), Dot(A[i], Col(B, 3))>>
MatMul(A, B) == <<MatRow(A, B, 1), MatRow(A, B, 2), MatRow(A, B, 3)>>
VecAdd(a, b) == <<a[1] + b[1], a[2] + b[2], a[3] + b[3]>>

Identity3 == <<<<1, 0, 0>>, <<0, 1, 0>>, <<0, 0, 1>>>>

\* np.radians / np.degrees: degrees <-> quarter turns
radians(deg) == deg \div 90
degrees(q) == q * 90

\* np.cos / np.sin of a number of quarter turns
cos(q) == CASE q % 4 = 0 -> 1 [] q % 4 = 1 -> 0 [] q % 4 = 2 -> -1 [] OTHER -> 0
sin(q) == CASE q % 4 = 0 -> 0 [] q % 4 = 1 -> 1 [] q % 4 = 2 -> 0 [] OTHER -> -1

Rx(tilt) == <<<<1, 0, 0>>,
              <<0, cos(tilt), -sin(tilt)>>,
              <<0, sin(tilt), cos(tilt)>>>>
Ry(pan) == <<<<cos(pan), 0, sin(pan)>>,
             <<0, 1, 0>>,
             <<-sin(pan), 0, cos(pan)>>>>

\* R = Ry @ Rx
ComposeR_RxRy(pan, tilt) == MatMul(Rx(tilt), Ry(pan))
ComposeR(pan, tilt) == MatMul(Ry(pan), Rx(tilt))

\* eye_offsets, in thousandths: theta = 30 deg, phi = 150 deg / 30 deg, r = 1
left_eye_offset == <<-433, 250, 866>>
right_eye_offset == <<433, 250, 866>>
head_pos == <<0, 0, 0>>

\* item.rotate(angle, x, y, z) of a GLGraphicsItem: the rotation about the
\* axis is multiplied onto the item's transform from the left (local=False)
AxisRotation(angle, axis) ==
    IF axis = <<1, 0, 0>> THEN Rx(radians(angle)) ELSE Ry(radians(angle))
rotate_Local(transform, angle, axis) == MatMul(transform, AxisRotation(angle, axis))
rotate(transform, angle, axis) == MatMul(AxisRotation(angle, axis), transform)

\* item.translate(dx, dy, dz) on the translation part of a transform
translate(transform, v) == VecAdd(transform, v)

\* item.resetTransform(): the rotation part and the translation part
resetRotation_Keep(transform) == transform
resetRotation(transform) == Identity3
resetTranslation_Keep(transform) == transform
resetTranslation(transform) == <<0, 0, 0>>

\* head.resetTransform(); head.rotate(tilt, 1,0,0); head.rotate(pan, 0,1,0)
HeadTransform(transform, pan, tilt) ==
    rotate(rotate(resetRotation(transform), degrees(tilt), <<1, 0, 0>>),
           degrees(pan), <<0, 1, 0>>)

\* eye_obj.resetTransform(); eye_obj.translate(*(R @ local_pos + head_pos))
EyeTransform(transform, R, local_pos) ==
    translate(resetTranslation(transform), VecAdd(MatVec(R, local_pos), head_pos))

\* sock.recvfrom(1024): the datagram returned and the ones left pending
recvfrom_data(queue) == Head(queue)
recvfrom_rest_Drain(queue) == <<>>
recvfrom_rest(queue) == Tail(queue)

\* except BlockingIOError: pass -- the error count after a tick without data
NoDataErrors_Logged(n) == n + 1
NoDataErrors(n) == n

\* a datagram reaches the socket of visualize_head
RenderArrive ==
    /\ mode = "virtual"
    /\ rn_running
    /\ rn_arrived < MaxRender
    /\ Len(rn_queue) < MaxPending
    /\ \E d \in OrientDatagrams(RenderAngles) :
         rn_queue' = Append(rn_queue, d)
    /\ rn_arrived' = rn_arrived + 1
    /\ UNCHANGED <<rn_running, rn_ticks, rn_last, rn_applied, rn_R, head, left_eye,
                   right_eye, rn_errors>>
    /\ UNCHANGED <<mode, lkvars, rbvars>>

\* update(): one timer timeout
Update ==
    /\ mode = "virtual"
    /\ rn_running
    /\ Len(rn_ticks) < MaxTicks
    /\ rn_ticks' = Append(rn_ticks, IF rn_queue = <<>> THEN "empty"
                                    ELSE IF OrientUnpackOk(Head(rn_queue))
                                         THEN "applied" ELSE "bad")
    /\ IF rn_queue = <<>>
       THEN \* BlockingIOError: pass
            /\ rn_errors' = NoDataErrors(rn_errors)
            /\ UNCHANGED <<rn_queue, rn_last, rn_applied, rn_R, head, left_eye,
                           right_eye>>
       ELSE LET data == recvfrom_data(rn_queue) IN
            /\ rn_queue' = recvfrom_rest(rn_queue)
            /\ IF OrientUnpackOk(data)
               THEN LET pan == radians(OrientUnpack(data)[1])
                        tilt == radians(OrientUnpack(data)[2])
                        R == ComposeR(pan, tilt)
                    IN /\ rn_last' = Some(OrientUnpack(data))
                       /\ rn_R' = Some(R)
                       /\ rn_applied' = Append(rn_applied, OrientUnpack(data))
                       /\ head' = HeadTransform(head, pan, tilt)
                       /\ left_eye' = EyeTransform(left_eye, R, left_eye_offset)
                       /\ right_eye' = EyeTransform(right_eye, R, right_eye_offset)
                       /\ UNCHANGED rn_errors
               ELSE \* struct.error: except Exception, print
                    /\ rn_errors' = rn_errors + 1
                    /\ UNCHANGED <<rn_last, rn_applied, rn_R, head, left_eye, right_eye>>
    /\ UNCHANGED <<rn_running, rn_arrived>>
    /\ UNCHANGED <<mode, lkvars, rbvars>>

\* handle_key with Escape or Q: app.quit() ends app.exec_() and the timer
HandleKey ==
    /\ mode = "virtual"
    /\ rn_running
    /\ rn_running' = FALSE
    /\ UNCHANGED <<rn_queue, rn_arrived, rn_ticks, rn_last, rn_applied, rn_R, head,
                   left_eye, right_eye, rn_errors>>
    /\ UNCHANGED <<mode, lkvars, rbvars>>

\* ------------------------------------------------------------ the program
Init ==
    /\ mode \in {"attention", "robot", "virtual"}
    /\ lk_pc = "recv"
    /\ lk_sock = "open"
    /\ last_status = None
    /\ lk_recvd = <<>>
    /\ lk_decoded = <<>>
    /\ lk_events = <<>>
    /\ rb_pc = "recv"
    /\ rb_sock = "open"
    /\ pan_angle = None
    /\ tilt_angle = None
    /\ rb_recvd = <<>>
    /\ rb_decoded = <<>>
    /\ rb_calls = <<>>
    /\ rb_errors = 0
    /\ rn_running = TRUE
    /\ rn_queue = <<>>
    /\ rn_arrived = 0
    /\ rn_ticks = <<>>
    /\ rn_last = None
    /\ rn_applied = <<>>
    /\ rn_R = None
    /\ head = Identity3
    /\ left_eye = <<0, 0, 0>>
    /\ right_eye = <<0, 0, 0>>
    /\ rn_errors = 0

Next ==
    \/ LookRecv
    \/ LookInterrupt
    \/ RobotRecv
    \/ RobotSetJoint
    \/ RobotInterrupt
    \/ RenderArrive
    \/ Update
    \/ HandleKey

Spec == Init /\ [][Next]_vars

\* ================================================================ claims
IsBadAttn(d) == d.len # AttnSize
IsBadOrient(d) == d.len # OrientSize
Last(q) == q[Len(q)]
\* the step is an iteration of control_robot that received a datagram
RobotReceived == Len(rb_recvd') = Len(rb_recvd) + 1
\* the step is a tick of update that took a datagram from the socket
RenderReceived == Len(rn_ticks') = Len(rn_ticks) + 1 /\ rn_queue # <<>>

\* C1: a sample that was decoded emits an event exactly when nothing is
\* latched yet or its looking value differs from the latched one, the latch
\* then holds the sample's value, and no other step emits anything; the
\* samples true, true, false, false, true emit true, false, true.
C1_LatchStep ==
    IF Len(lk_decoded') = Len(lk_decoded) + 1
    THEN LET s == Last(lk_decoded') IN
         /\ last_status' = Some(s)
         /\ IF last_status = None \/ last_status = Some(~s)
            THEN lk_events' = Append(lk_events, s)
            ELSE lk_events' = lk_events
    ELSE lk_events' = lk_events /\ last_status' = last_status
C1_Example ==
    lk_decoded = <<TRUE, TRUE, FALSE, FALSE, TRUE>>
        => lk_events = <<TRUE, FALSE, TRUE>>
C1_AttentionLatch == [][C1_LatchStep]_vars /\ []C1_Example
C1_Witness ==
    /\ lk_decoded = <<TRUE, TRUE, FALSE, FALSE, TRUE>>
    /\ lk_events = <<TRUE, FALSE, TRUE>>
    /\ last_status = Some(TRUE)

\* C2 (as claimed): after a datagram of the wrong length was received by
\* receive_looking_status the receive loop is still listening on its open
\* socket, unless an interrupt stopped it.
C2_MalformedAttnDropped ==
    (\E i \in 1..Len(lk_recvd) : IsBadAttn(lk_recvd[i]))
        => \/ lk_pc = "recv" /\ lk_sock = "open"
           \/ lk_pc = "stopped"

\* C3: a datagram of a length other than 8 bytes leaves control_robot at its
\* recvfrom with the socket open and leaves the timer of visualize_head
\* running, with one error line printed; a well-formed datagram received at
\* any time, also after such a datagram, is decoded (control_robot goes on
\* to the pan command with the datagram's two floats, update applies them).
C3_RobotStep ==
    RobotReceived =>
        LET d == Last(rb_recvd') IN
        IF IsBadOrient(d)
        THEN rb_pc' = "recv" /\ rb_sock' = "open" /\ rb_errors' = rb_errors + 1
        ELSE rb_pc' = "pan" /\ pan_angle' = Some(d.f0) /\ tilt_angle' = Some(d.f1)
C3_RenderStep ==
    RenderReceived =>
        LET d == Head(rn_queue) IN
        IF IsBadOrient(d)
        THEN rn_running' /\ rn_queue' = Tail(rn_queue) /\ rn_errors' = rn_errors + 1
        ELSE rn_running' /\ rn_last' = Some(<<d.f0, d.f1>>) /\ rn_errors' = rn_errors
C3_OrientMalformedDropped == [][C3_RobotStep /\ C3_RenderStep]_vars
C3_Witness ==
    /\ mode = "virtual"
    /\ Len(rn_ticks) = 2
    /\ rn_ticks[1] = "bad"
    /\ rn_ticks[2] = "applied"
    /\ rn_last = Some(<<90, 0>>)
    /\ rn_running

\* C4: a step that receives a datagram of a length other than 8 bytes makes
\* no set_joint_position call and changes neither the decoded angles nor the
\* head transform nor either eye transform nor R; no call ever made belongs
\* to such a datagram.
C4_RobotStep ==
    (RobotReceived /\ IsBadOrient(Last(rb_recvd')))
        => /\ rb_calls' = rb_calls
           /\ pan_angle' = pan_angle
           /\ tilt_angle' = tilt_angle
           /\ rb_decoded' = rb_decoded
C4_RenderStep ==
    (RenderReceived /\ IsBadOrient(Head(rn_queue)))
        => /\ head' = head
           /\ left_eye' = left_eye
           /\ right_eye' = right_eye
           /\ rn_R' = rn_R
           /\ rn_last' = rn_last
C4_NoCallForBad ==
    \A i \in 1..Len(rb_calls) : ~IsBadOrient(rb_recvd[rb_calls[i].idx])
C4_FailedDecodeKeepsState ==
    [][C4_RobotStep /\ C4_RenderStep]_vars /\ []C4_NoCallForBad
C4_Witness ==
    /\ mode = "robot"
    /\ Len(rb_recvd) = 2
    /\ ~IsBadOrient(rb_recvd[1])
    /\ rb_recvd[2].len = 9
    /\ Len(rb_calls) = 2
    /\ rb_pc = "recv"
    /\ pan_angle = Some(45)
    /\ tilt_angle = Some(-20)

\* the calls control_robot makes for the datagrams q when no call fails;
\* n is the number of datagrams received before q
RECURSIVE ExpectedCalls(_, _)
ExpectedCalls(q, n) ==
    IF q = <<>> THEN <<>>
    ELSE (IF IsBadOrient(Head(q)) THEN <<>>
          ELSE << [joint |-> "head_0", value |-> Head(q).f0, ok |-> TRUE, idx |-> n + 1],
                  [joint |-> "head_1", value |-> Head(q).f1, ok |-> TRUE, idx |-> n + 1] >>)
         \o ExpectedCalls(Tail(q), n + 1)
AllCallsOk == \A i \in 1..Len(rb_calls) : rb_calls[i].ok
IsPrefix(a, b) == Len(a) <= Len(b) /\ SubSeq(b, 1, Len(a)) = a

\* C5: as long as no set_joint_position call has failed, the calls made are
\* a prefix of (head_0, first float), (head_1, second float) for each
\* well-formed datagram in the order received; they are all of them
\* whenever control_robot is at recvfrom, in particular when the next
\* datagram is received.
C5_Calls ==
    AllCallsOk =>
        /\ IsPrefix(rb_calls, ExpectedCalls(rb_recvd, 0))
        /\ rb_pc = "recv" => rb_calls = ExpectedCalls(rb_recvd, 0)
C5_BeforeNext ==
    (RobotReceived /\ AllCallsOk) => rb_calls = ExpectedCalls(rb_recvd, 0)
C5_OneCallPerJoint == []C5_Calls /\ [][C5_BeforeNext]_vars
C5_Witness ==
    /\ Len(rb_recvd) = 3
    /\ rb_recvd[1] = [len |-> OrientSize, f0 |-> 45, f1 |-> -20]
    /\ rb_recvd[2] = [len |-> OrientSize, f0 |-> -20, f1 |-> -20]
    /\ rb_pc = "tilt"
    /\ Len(rb_calls) = 5
    /\ AllCallsOk
    /\ rb_calls[1].joint = "head_0" /\ rb_calls[1].value = 45
    /\ rb_calls[2].joint = "head_1" /\ rb_calls[2].value = -20

\* C6 (as claimed): whenever control_robot is back at recvfrom, every
\* well-formed datagram received has had both its head_0 call and its
\* head_1 call made, whether or not one of them failed.
C6_BothCommandsIssued ==
    rb_pc = "recv" =>
        \A n \in 1..Len(rb_recvd) :
            ~IsBadOrient(rb_recvd[n]) =>
                /\ \E i \in 1..Len(rb_calls) :
                       rb_calls[i].idx = n /\ rb_calls[i].joint = "head_0"
                /\ \E i \in 1..Len(rb_calls) :
                       rb_calls[i].idx = n /\ rb_calls[i].joint = "head_1"

\* C7: a set_joint_position call that raises prints one error line and
\* leaves control_robot at recvfrom; every call made after a failed call
\* belongs to a later datagram, and no joint of a datagram is called twice.
C7_FailStep ==
    (Len(rb_calls') = Len(rb_calls) + 1 /\ ~Last(rb_calls').ok)
        => rb_pc' = "recv" /\ rb_errors' = rb_errors + 1 /\ rb_sock' = "open"
C7_NoRetryInv ==
    \A i, j \in 1..Len(rb_calls) :
        i < j => /\ ~rb_calls[i].ok => rb_calls[j].idx > rb_calls[i].idx
                 /\ ~(rb_calls[i].idx = rb_calls[j].idx
                        /\ rb_calls[i].joint = rb_calls[j].joint)
C7_NoRetry == [][C7_FailStep]_vars /\ []C7_NoRetryInv
C7_Witness ==
    /\ Len(rb_calls) = 3
    /\ rb_calls[1].ok /\ ~rb_calls[2].ok /\ rb_calls[3].ok
    /\ rb_calls[2].joint = "head_1" /\ rb_calls[2].idx = 1
    /\ rb_calls[3].joint = "head_0" /\ rb_calls[3].idx = 2

\* C8: a tick of update that finds no datagram changes neither the head
\* transform nor either eye transform nor R, prints no error and leaves
\* the timer running.
C8_EmptyStep ==
    (Len(rn_ticks') = Len(rn_ticks) + 1 /\ rn_queue = <<>>)
        => /\ head' = head
           /\ left_eye' = left_eye
           /\ right_eye' = right_eye
           /\ rn_R' = rn_R
           /\ rn_last' = rn_last
           /\ rn_errors' = rn_errors
           /\ rn_queue' = <<>>
           /\ rn_running'
C8_EmptyTickNoOp == [][C8_EmptyStep]_vars
C8_Witness ==
    /\ rn_ticks = <<"applied", "empty", "empty">>
    /\ rn_last = Some(<<90, -90>>)
    /\ head # Identity3
    /\ rn_errors = 0
    /\ rn_running

\* C9: until a well-formed orientation datagram has been received,
\* control_robot has made no set_joint_position call and holds no angles,
\* and until a tick has applied a sample the head has the identity
\* transform, both eyes have no translation and no R was computed.
C9_Robot ==
    (\A n \in 1..Len(rb_recvd) : IsBadOrient(rb_recvd[n]))
        => rb_calls = <<>> /\ pan_angle = None /\ tilt_angle = None
C9_Render ==
    (rn_last = None) =>
        /\ head = Identity3
        /\ left_eye = <<0, 0, 0>>
        /\ right_eye = <<0, 0, 0>>
        /\ rn_R = None
C9_UnsetIsNoOp == C9_Robot /\ C9_Render
C9_Witness ==
    /\ mode = "robot"
    /\ Len(rb_recvd) = 2
    /\ rb_recvd[1].len = 7
    /\ rb_recvd[2].len = 9
    /\ rb_errors = 2
    /\ rb_calls = <<>>

\* reference trigonometry in degrees and the two products in closed form
RefCos(deg) == CASE deg % 360 = 0 -> 1 [] deg % 360 = 180 -> -1 [] OTHER -> 0
RefSin(deg) == CASE deg % 360 = 90 -> 1 [] deg % 360 = 270 -> -1 [] OTHER -> 0
RefRyRx(p, t) ==
    << <<RefCos(p), RefSin(p) * RefSin(t), RefSin(p) * RefCos(t)>>,
       <<0, RefCos(t), -RefSin(t)>>,
       <<-RefSin(p), RefCos(p) * RefSin(t), RefCos(p) * RefCos(t)>> >>
RefRxRy(p, t) ==
    << <<RefCos(p), 0, RefSin(p)>>,
       <<RefSin(t) * RefSin(p), RefCos(t), -RefSin(t) * RefCos(p)>>,
       <<-RefCos(t) * RefSin(p), RefSin(t), RefCos(t) * RefCos(p)>> >>

\* C10: after a tick applied the sample (pan, tilt), R is Ry(pan) Rx(tilt),
\* it is not Rx(tilt) Ry(pan) when the two differ, both eyes sit at R times
\* their rest offset, and for pan = 90, tilt = 0 R maps +Z to +X.
C10_CompositionOrder ==
    rn_last # None =>
        LET p == rn_last[1][1]
            t == rn_last[1][2]
        IN /\ rn_R = Some(RefRyRx(p, t))
           /\ RefRyRx(p, t) # RefRxRy(p, t) => rn_R # Some(RefRxRy(p, t))
           /\ left_eye = MatVec(RefRyRx(p, t), left_eye_offset)
           /\ right_eye = MatVec(RefRyRx(p, t), right_eye_offset)
           /\ (p = 90 /\ t = 0) => MatVec(rn_R[1], <<0, 0, 1>>) = <<1, 0, 0>>
C10_Witness ==
    /\ rn_last = Some(<<90, 90>>)
    /\ rn_R = Some(<<<<0, 1, 0>>, <<0, 0, -1>>, <<-1, 0, 0>>>>)
    /\ RefRyRx(90, 90) # RefRxRy(90, 90)
    /\ left_eye = <<250, -866, 433>>

\* the step is a tick of update that applied a sample
RenderApplied == Len(rn_applied') = Len(rn_applied) + 1

\* C11: after any ticks and datagrams the head rotation and both eye
\* positions are those given by the most recently applied sample alone
\* (the rotation of that sample, and head_pos plus that rotation of the
\* rest offset), and a tick that applies the sample applied last leaves
\* head, eyes and R as they are.
C11_OnlyLastSample ==
    rn_applied # <<>> =>
        LET p == Last(rn_applied)[1]
            t == Last(rn_applied)[2]
        IN /\ rn_last = Some(Last(rn_applied))
           /\ head = RefRyRx(p, t)
           /\ left_eye = VecAdd(head_pos, MatVec(RefRyRx(p, t), left_eye_offset))
           /\ right_eye = VecAdd(head_pos, MatVec(RefRyRx(p, t), right_eye_offset))
C11_SameSampleStep ==
    (RenderApplied /\ rn_last = Some(Last(rn_applied')))
        => /\ head' = head
           /\ left_eye' = left_eye
           /\ right_eye' = right_eye
           /\ rn_R' = rn_R
C11_HistoryIndependent == []C11_OnlyLastSample /\ [][C11_SameSampleStep]_vars
C11_Witness ==
    /\ rn_applied = << <<90, -90>>, <<180, 90>> >>
    /\ head = RefRyRx(180, 90)
    /\ head # RefRyRx(90, -90)
    /\ right_eye = MatVec(RefRyRx(180, 90), right_eye_offset)

\* C12: after a tick applied the sample pan = 0, tilt = 0, whatever was
\* applied before, each eye sits at head_pos plus its rest offset and the
\* head has the identity rotation.
C12_IdentityRoundTrip ==
    rn_last = Some(<<0, 0>>) =>
        /\ left_eye = VecAdd(head_pos, left_eye_offset)
        /\ right_eye = VecAdd(head_pos, right_eye_offset)
        /\ head = Identity3
        /\ rn_R = Some(Identity3)
C12_Witness ==
    /\ rn_applied = << <<90, 180>>, <<0, 0>> >>
    /\ left_eye = <<-433, 250, 866>>
    /\ right_eye = <<433, 250, 866>>
    /\ head = Identity3

\* C13: in every state in which receive_looking_status has left its receive
\* loop, by an interrupt or by the exception of a malformed datagram, its
\* socket is closed.
C13_AttnSocketReleased ==
    lk_pc \in {"stopped", "crashed"} => lk_sock = "closed"
C13_Witness ==
    /\ lk_pc = "crashed"
    /\ lk_sock = "closed"
    /\ Len(lk_recvd) = 3
    /\ IsBadAttn(lk_recvd[3])
    /\ lk_events = <<TRUE, FALSE>>

\* C14 (as claimed): in every state in which control_robot has been ended
\* by an interrupt its socket is closed.
C14_RobotSocketReleased ==
    rb_pc = "killed" => rb_sock = "closed"

\* the datagram of the last call for the joint that the actuator accepted
\* (0 when it has accepted none)
AcceptedIdx(joint) ==
    {rb_calls[i].idx : i \in {k \in 1..Len(rb_calls) :
                                 rb_calls[k].ok /\ rb_calls[k].joint = joint}}
LastAccepted(joint) ==
    IF AcceptedIdx(joint) = {} THEN 0
    ELSE CHOOSE m \in AcceptedIdx(joint) : \A x \in AcceptedIdx(joint) : x <= m

\* C15 (as claimed): at the end of every iteration of control_robot the last
\* pan the actuator accepted and the last tilt it accepted belong to the
\* same datagram, also when calls have failed.
C15_PairFromOneSample ==
    rb_pc = "recv" => LastAccepted("head_0") = LastAccepted("head_1")

\* C15 (amended): at the end of every iteration the last accepted pan and
\* the last accepted tilt belong to the same datagram, unless the tilt call
\* of the datagram whose pan was accepted last has failed; the accepted tilt
\* is then that of an earlier datagram, or none.
C15_PairUnlessTiltFailed ==
    rb_pc = "recv" =>
        \/ LastAccepted("head_0") = LastAccepted("head_1")
        \/ /\ LastAccepted("head_1") < LastAccepted("head_0")
           /\ \E i \in 1..Len(rb_calls) :
                  /\ rb_calls[i].joint = "head_1"
                  /\ ~rb_calls[i].ok
                  /\ rb_calls[i].idx = LastAccepted("head_0")
C15_Witness ==
    /\ rb_pc = "recv"
    /\ Len(rb_recvd) = 2
    /\ Len(rb_calls) = 4
    /\ rb_calls[1].ok /\ rb_calls[2].ok /\ rb_calls[3].ok /\ ~rb_calls[4].ok
    /\ rb_calls[2].value = -20 /\ rb_calls[3].value = -20 /\ rb_calls[4].value = 45
    /\ LastAccepted("head_0") = 2
    /\ LastAccepted("head_1") = 1

\* the step is a call of update
RenderTick == Len(rn_ticks') = Len(rn_ticks) + 1

\* C16: a tick takes at most one datagram from the socket, the oldest one,
\* and applies it if it is well-formed; the other pending datagrams stay
\* pending in their order, so with two or more pending the newest is still
\* pending after the tick; nothing is applied outside a tick.
C16_TickStep ==
    IF RenderTick
    THEN /\ Len(rn_queue') >= Len(rn_queue) - 1
         /\ Len(rn_applied') <= Len(rn_applied) + 1
         /\ rn_queue # <<>> =>
               /\ rn_queue' = SubSeq(rn_queue, 2, Len(rn_queue))
               /\ ~IsBadOrient(rn_queue[1]) =>
                     /\ rn_applied' = Append(rn_applied, <<rn_queue[1].f0, rn_queue[1].f1>>)
                     /\ rn_last' = Some(<<rn_queue[1].f0, rn_queue[1].f1>>)
         /\ Len(rn_queue) >= 2 => Last(rn_queue') = Last(rn_queue)
    ELSE rn_applied' = rn_applied /\ rn_last' = rn_last
C16_OneDatagramPerTick == [][C16_TickStep]_vars
C16_Witness ==
    /\ rn_arrived = 2
    /\ rn_ticks = <<"applied">>
    /\ rn_applied = << <<-90, 180>> >>
    /\ rn_last = Some(<<-90, 180>>)
    /\ rn_queue = << [len |-> OrientSize, f0 |-> 90, f1 |-> 0] >>

\* C17: after a tick applied a sample, the head transform (reset, rotate by
\* tilt about X, rotate by pan about Y) is the matrix R that placed the
\* eyes, so each eye sits at head_pos plus the head transform of its rest
\* offset.
C17_HeadEqualsR ==
    rn_last # None =>
        /\ Some(head) = rn_R
        /\ left_eye = VecAdd(head_pos, MatVec(head, left_eye_offset))
        /\ right_eye = VecAdd(head_pos, MatVec(head, right_eye_offset))
C17_Witness ==
    /\ rn_last = Some(<<-90, 90>>)
    /\ Some(head) = rn_R
    /\ head = <<<<0, -1, 0>>, <<0, 0, -1>>, <<1, 0, 0>>>>
    /\ head # RefRxRy(-90, 90)

\* the positions of lk_decoded whose value differs from the one before
Changes(q) == {i \in 2..Len(q) : q[i] # q[i - 1]}

\* C18: the latch is None exactly when no sample has been decoded, that is
\* when no datagram of the right length was received, and otherwise holds
\* the last decoded value; consecutive events differ, and there is one
\* event more than there are value changes in the decoded sequence (none
\* when it is empty).
C18_LatchInvariant ==
    /\ last_status = None <=> lk_decoded = <<>>
    /\ lk_decoded = <<>> <=> \A i \in 1..Len(lk_recvd) : IsBadAttn(lk_recvd[i])
    /\ lk_decoded # <<>> => last_status = Some(Last(lk_decoded))
    /\ \A i \in 2..Len(lk_events) : lk_events[i] # lk_events[i - 1]
    /\ Len(lk_events) =
          IF lk_decoded = <<>> THEN 0 ELSE 1 + Cardinality(Changes(lk_decoded))
C18_Witness ==
    /\ lk_decoded = <<FALSE, FALSE, TRUE, FALSE, FALSE>>
    /\ lk_events = <<FALSE, TRUE, FALSE>>
    /\ last_status = Some(FALSE)
    /\ lk_pc = "recv"

====
